---- MODULE Spec2Model ----
(***************************************************************************)
(* Model of the Conan recipe conanfile.py (class TestUtilsConan).          *)
(*                                                                         *)
(* The recipe declares a package descriptor and two callbacks:             *)
(*   package()       copy(self, "*.h", source_folder, package_folder)      *)
(*   package_info()  assigns cpp_info.includedirs / bindirs / libdirs      *)
(*                                                                         *)
(* Text is modelled as sequences of one-character strings, so that glob    *)
(* matching, lower-casing and path splitting are computed, not assumed.    *)
(* A folder is a function from the relative paths of the regular files in  *)
(* it to their content.  The source folder and the package folder are two  *)
(* disjoint trees (no_copy_source = True: the package folder is never      *)
(* inside the source folder).  Only regular files are modelled, on a file   *)
(* system that tells capitals from small letters in names.                 *)
(***************************************************************************)
EXTENDS Naturals, Sequences, FiniteSets

VARIABLES
    descriptor,    \* the class attributes of TestUtilsConan
    source_folder, \* files under self.source_folder: relative path -> content
    package_folder,\* files under self.package_folder: relative path -> content
    includedirs,   \* self.cpp_info.includedirs
    bindirs,       \* self.cpp_info.bindirs
    libdirs,       \* self.cpp_info.libdirs
    lastCall,      \* history: the callback that ran last ("none" before any)
    repeated,      \* history: the last callback was also the one before it
    packaged,      \* history: package() has run at least once
    initial        \* history: package folder and cpp_info before any callback

vars == <<descriptor, source_folder, package_folder, includedirs, bindirs,
          libdirs, lastCall, repeated, packaged, initial>>

----------------------------------------------------------------------------
(* Bounds of the model *)

\* At most this many files in the source folder.
MaxSourceFiles == 2

\* At most this many files in the package folder before package() runs.
MaxPackageFiles == 1

\* File contents (abstract byte strings).
Contents == {"bytes1", "bytes2"}

----------------------------------------------------------------------------
(* Text *)

include == <<"i","n","c","l","u","d","e">>
lib == <<"l","i","b">>
bin == <<"b","i","n">>

\* The candidate relative paths of files, in either folder.
P_a_h      == <<"i","n","c","l","u","d","e","/","a",".","h">>
P_sub_b_h  == <<"i","n","c","l","u","d","e","/","s","/","b",".","h">>
P_a_hpp    == <<"i","n","c","l","u","d","e","/","a",".","h","p","p">>
P_B_H      == <<"i","n","c","l","u","d","e","/","B",".","H">>
P_n_txt    == <<"i","n","c","l","u","d","e","/","n",".","t","x","t">>
P_a_c      == <<"i","n","c","l","u","d","e","/","a",".","c">>
P_x_h      == <<"x",".","h">>

Paths == {P_a_h, P_sub_b_h, P_a_hpp, P_B_H, P_n_txt, P_a_c, P_x_h}

UpperCase == <<"A","B","C","D","E","F","G","H","I","J","K","L","M",
               "N","O","P","Q","R","S","T","U","V","W","X","Y","Z">>
LowerCase == <<"a","b","c","d","e","f","g","h","i","j","k","l","m",
               "n","o","p","q","r","s","t","u","v","w","x","y","z">>

\* str.lower()
lower(s) ==
    [i \in 1..Len(s) |->
        IF \E k \in 1..Len(UpperCase) : UpperCase[k] = s[i]
        THEN LowerCase[CHOOSE k \in 1..Len(UpperCase) : UpperCase[k] = s[i]]
        ELSE s[i]]

\* fnmatch.fnmatchcase(name, pat) for patterns of literals, "*" and "?":
\* "*" matches any run of characters, "/" included.
RECURSIVE fnmatchcase(_, _)
fnmatchcase(name, pat) ==
    IF pat = <<>> THEN name = <<>>
    ELSE IF Head(pat) = "*"
         THEN \/ fnmatchcase(name, Tail(pat))
              \/ (name # <<>> /\ fnmatchcase(Tail(name), pat))
    ELSE IF Head(pat) = "?"
         THEN name # <<>> /\ fnmatchcase(Tail(name), Tail(pat))
    ELSE name # <<>> /\ Head(name) = Head(pat)
                     /\ fnmatchcase(Tail(name), Tail(pat))

\* os.path.basename
RECURSIVE basename(_)
basename(p) ==
    IF \E i \in 1..Len(p) : p[i] = "/"
    THEN basename(Tail(p))
    ELSE p

\* Whether path p lies under directory d.
IsUnder(p, d) ==
    /\ Len(p) > Len(d) + 1
    /\ SubSeq(p, 1, Len(d)) = d
    /\ p[Len(d) + 1] = "/"

\* The paths at which the package folder may hold a file before package()
\* runs: a header of the source folder, a header in capitals, a text file.
StalePaths == {P_a_h, P_B_H, P_n_txt}

\* The folders holding at most n files, each at one of the paths of P.
Folders(P, n) ==
    UNION {[S -> Contents] : S \in {T \in SUBSET P : Cardinality(T) <= n}}

EmptyFolder == <<>>

----------------------------------------------------------------------------
(* The recipe *)

\* class TestUtilsConan: its attributes.
TestUtilsConan ==
    [name            |-> "test_utils",
     version         |-> "1.0",
     license         |-> "MIT",
     scm             |-> [type     |-> "git",
                          url      |-> "https://github.com/nick-a-schneider/test_utils.git",
                          revision |-> "auto"],
     package_type    |-> "header-library",
     exports_sources |-> <<"i","n","c","l","u","d","e","/","*">>,
     no_copy_source  |-> TRUE]

\* The pattern argument of the copy() call in package().
HeaderPattern_prefix == <<"*",".","h","*">>
HeaderPattern == <<"*",".","h">>

\* The arguments the copy() call leaves at their defaults.  The signature is
\* conan.tools.files.copy(conanfile, pattern, src, dst, keep_path=True,
\*     excludes=None, ignore_case=True, overwrite_equal=False):
\* the match ignores letter case, relative paths are kept, and a file whose
\* copy in dst already has the same content is not written again.
keep_path_off == FALSE
keep_path == TRUE

ignore_case == TRUE

overwrite_equal == FALSE

\* conan.tools.files.copy, file selection: every regular file at any depth
\* under src whose relative path matches the pattern.
_filter_files(src, pattern) ==
    IF ignore_case
    THEN {f \in DOMAIN src : fnmatchcase(lower(f), lower(pattern))}
    ELSE {f \in DOMAIN src : fnmatchcase(f, pattern)}

\* Where a selected file goes, relative to dst.
dst_name(f) == IF keep_path THEN f ELSE basename(f)

\* Mutant: a file already present in dst is never written again.
_copy_files_keep_existing(files, src, dst) ==
    LET targets == {dst_name(f) : f \in files} IN
    [t \in DOMAIN dst \cup targets |->
        IF t \in DOMAIN dst THEN dst[t]
        ELSE src[CHOOSE f \in files : dst_name(f) = t]]

\* conan.tools.files.copy, the copying: each selected file is written to dst
\* (shutil.copy2) unless dst already holds a file there with the same
\* content; every other file of dst stays as it is.
_copy_files(files, src, dst) ==
    LET targets == {dst_name(f) : f \in files} IN
    [t \in DOMAIN dst \cup targets |->
        IF t \in targets
        THEN LET f == CHOOSE g \in files : dst_name(g) = t IN
             IF ~overwrite_equal /\ t \in DOMAIN dst /\ dst[t] = src[f]
             THEN dst[t]
             ELSE src[f]
        ELSE dst[t]]

\* copy(conanfile, pattern, src, dst): the folder dst afterwards.
copy(pattern, src, dst) == _copy_files(_filter_files(src, pattern), src, dst)

\* Mutant: the headers are moved, not copied.
package_moves ==
    /\ package_folder' = copy(HeaderPattern, source_folder, package_folder)
    /\ source_folder' =
          [f \in DOMAIN source_folder \ _filter_files(source_folder, HeaderPattern)
              |-> source_folder[f]]
    /\ lastCall' = "package"
    /\ repeated' = (lastCall = "package")
    /\ packaged' = TRUE
    /\ UNCHANGED <<descriptor, includedirs, bindirs, libdirs, initial>>

\* def package(self)
package ==
    /\ package_folder' = copy(HeaderPattern, source_folder, package_folder)
    /\ lastCall' = "package"
    /\ repeated' = (lastCall = "package")
    /\ packaged' = TRUE
    /\ UNCHANGED <<descriptor, source_folder, includedirs, bindirs, libdirs,
                   initial>>

\* Mutant: the include directory is appended to the list, not assigned.
package_info_appends ==
    /\ includedirs' = Append(includedirs, include)
    /\ bindirs' = <<>>
    /\ libdirs' = <<>>
    /\ lastCall' = "package_info"
    /\ repeated' = (lastCall = "package_info")
    /\ UNCHANGED <<descriptor, source_folder, package_folder, packaged, initial>>

\* Mutant: every directory list is emptied, the include list too.
package_info_clears ==
    /\ includedirs' = <<>>
    /\ bindirs' = <<>>
    /\ libdirs' = <<>>
    /\ lastCall' = "package_info"
    /\ repeated' = (lastCall = "package_info")
    /\ UNCHANGED <<descriptor, source_folder, package_folder, packaged, initial>>

\* Mutant: the binary-directory list is left as it was.
package_info_keeps_bindirs ==
    /\ includedirs' = <<include>>
    /\ libdirs' = <<>>
    /\ lastCall' = "package_info"
    /\ repeated' = (lastCall = "package_info")
    /\ UNCHANGED <<descriptor, source_folder, package_folder, bindirs, packaged,
                   initial>>

\* Mutant: the callback also creates the include directory's marker file.
package_info_writes ==
    /\ includedirs' = <<include>>
    /\ bindirs' = <<>>
    /\ libdirs' = <<>>
    /\ package_folder' =
          [t \in DOMAIN package_folder \cup {P_n_txt} |->
              IF t = P_n_txt THEN "bytes1" ELSE package_folder[t]]
    /\ lastCall' = "package_info"
    /\ repeated' = (lastCall = "package_info")
    /\ UNCHANGED <<descriptor, source_folder, packaged, initial>>

\* def package_info(self)
package_info ==
    /\ includedirs' = <<include>>
    /\ bindirs' = <<>>
    /\ libdirs' = <<>>
    /\ lastCall' = "package_info"
    /\ repeated' = (lastCall = "package_info")
    /\ UNCHANGED <<descriptor, source_folder, package_folder, packaged, initial>>

----------------------------------------------------------------------------
(* The specification *)

\* cpp_info as the callbacks may find it: Conan's defaults, all empty, or
\* lists set by an earlier hook.
CppInfoBefore ==
    {[includedirs |-> <<include>>, bindirs |-> <<bin>>, libdirs |-> <<lib>>],
     [includedirs |-> <<>>, bindirs |-> <<>>, libdirs |-> <<>>],
     [includedirs |-> <<lib, include>>, bindirs |-> <<bin, lib>>,
      libdirs |-> <<lib, bin>>]}

Init ==
    /\ descriptor = TestUtilsConan
    /\ source_folder \in Folders(Paths, MaxSourceFiles)
    /\ package_folder \in Folders(StalePaths, MaxPackageFiles)
    /\ \E c \in CppInfoBefore :
          /\ includedirs = c.includedirs
          /\ bindirs = c.bindirs
          /\ libdirs = c.libdirs
          /\ initial = [package_folder |-> package_folder,
                        includedirs |-> c.includedirs,
                        bindirs |-> c.bindirs,
                        libdirs |-> c.libdirs]
    /\ lastCall = "none"
    /\ repeated = FALSE
    /\ packaged = FALSE

Next == package \/ package_info

Spec == Init /\ [][Next]_vars

----------------------------------------------------------------------------
(* Properties *)

\* A file name matches "*.h" as a glob read letter for letter.
NameMatchesHeaderGlob(f) == fnmatchcase(basename(f), <<"*",".","h">>)

\* A file name matches "*.h" when capitals and small letters are not told apart.
NameMatchesHeaderGlobAnyCase(f) ==
    fnmatchcase(lower(basename(f)), <<"*",".","h">>)

\* The headers of the source folder, by either reading.
SourceHeaders == {f \in DOMAIN source_folder : NameMatchesHeaderGlob(f)}
SourceHeadersAnyCase == {f \in DOMAIN source_folder : NameMatchesHeaderGlobAnyCase(f)}

StartedEmpty == initial.package_folder = EmptyFolder

\* Every file of the source folder is one the pattern "include/*" exports.
OnlyExportedSources ==
    \A f \in DOMAIN source_folder : fnmatchcase(f, descriptor.exports_sources)

\* C1 (copy fidelity): once package() has run, every file of the source
\* folder, at any depth, whose name matches "*.h" is in the package folder
\* at the same relative path with the same content.
C1_CopyFidelity ==
    packaged =>
        \A f \in SourceHeaders :
            /\ f \in DOMAIN package_folder
            /\ package_folder[f] = source_folder[f]

\* C1 witness: package() has run on a source folder holding a top-level and
\* a nested header, over a stale copy of one of them with other content.
C1_Witness ==
    /\ packaged
    /\ {P_a_h, P_sub_b_h} \subseteq DOMAIN source_folder
    /\ P_a_h \in DOMAIN initial.package_folder
    /\ initial.package_folder[P_a_h] # source_folder[P_a_h]

\* C2 as stated (selection precision, the glob read letter for letter):
\* package() creates no file for a source file whose name does not match
\* "*.h", and from an empty package folder the paths packaged are exactly
\* those of the source files whose name matches "*.h".
C2_SelectionPrecisionAsStated ==
    packaged =>
        /\ \A f \in DOMAIN source_folder \ SourceHeaders :
               f \notin DOMAIN initial.package_folder => f \notin DOMAIN package_folder
        /\ StartedEmpty => DOMAIN package_folder = SourceHeaders

\* C2 amended (selection precision, capitals and small letters not told
\* apart): package() creates no file for a source file whose name does not
\* match "*.h" in any lettercase, and from an empty package folder the
\* paths packaged are exactly those of the source files whose name does.
C2_SelectionPrecisionAnyCase ==
    packaged =>
        /\ \A f \in DOMAIN source_folder \ SourceHeadersAnyCase :
               f \notin DOMAIN initial.package_folder => f \notin DOMAIN package_folder
        /\ StartedEmpty => DOMAIN package_folder = SourceHeadersAnyCase

\* C2 witness: package() has run from an empty package folder on a source
\* folder holding a header in capitals and a ".hpp" file.
C2_Witness ==
    /\ packaged
    /\ StartedEmpty
    /\ DOMAIN source_folder = {P_B_H, P_a_hpp}
    /\ DOMAIN package_folder = {P_B_H}

\* C3: right after package_info() the include-directory list is exactly
\* the one entry "include", whatever the source folder holds and whether or
\* not package() has run.
C3_IncludeDirs ==
    lastCall = "package_info" => includedirs = <<include>>

\* C3 witness: package_info() ran after package(), on a source folder with
\* two headers, the list having been something else before.
C3_Witness ==
    /\ lastCall = "package_info"
    /\ packaged
    /\ Cardinality(SourceHeaders) = 2
    /\ initial.includedirs # <<include>>

\* C4: right after package_info() the binary- and the library-directory
\* lists are empty, whatever they were before and whatever is packaged.
C4_NoBinNoLib ==
    lastCall = "package_info" => (bindirs = <<>> /\ libdirs = <<>>)

\* C4 witness: package_info() ran with both lists non-empty before it and
\* files in the package folder.
C4_Witness ==
    /\ lastCall = "package_info"
    /\ initial.bindirs # <<>>
    /\ initial.libdirs # <<>>
    /\ DOMAIN package_folder # {}

\* C5 (idempotence): a package() call right after a package() call leaves
\* the package folder as it is, and a package_info() call right after a
\* package_info() call leaves the three directory lists as they are.
C5_Idempotent ==
    [][ /\ (lastCall = "package" /\ lastCall' = "package")
            => package_folder' = package_folder
        /\ (lastCall = "package_info" /\ lastCall' = "package_info")
            => (includedirs' = includedirs /\ bindirs' = bindirs
                /\ libdirs' = libdirs) ]_vars

\* C5 witness: package() has run twice in a row and has packaged a header.
C5_Witness ==
    /\ lastCall = "package"
    /\ repeated
    /\ SourceHeaders # {}
    /\ package_folder # initial.package_folder

\* C6 (frame of package()): a package() call leaves the source folder, its
\* files and their content, and the three directory lists as they are.
C6_PackageFrame ==
    [][ lastCall' = "package" =>
            /\ source_folder' = source_folder
            /\ includedirs' = includedirs
            /\ bindirs' = bindirs
            /\ libdirs' = libdirs ]_vars

\* C6 witness: package() has just run and has written into the package
\* folder.
C6_Witness ==
    /\ lastCall = "package"
    /\ package_folder # initial.package_folder
    /\ Cardinality(DOMAIN source_folder) = 2

\* C7: the descriptor keeps its declared values through every sequence of
\* calls, and a package_info() call changes neither the descriptor nor any
\* file of the source or the package folder.
C7_DescriptorImmutable ==
    /\ [](/\ descriptor.name = "test_utils"
          /\ descriptor.version = "1.0"
          /\ descriptor.license = "MIT"
          /\ descriptor.package_type = "header-library"
          /\ descriptor.exports_sources = <<"i","n","c","l","u","d","e","/","*">>
          /\ descriptor.no_copy_source = TRUE)
    /\ [][ lastCall' = "package_info" =>
              /\ descriptor' = descriptor
              /\ source_folder' = source_folder
              /\ package_folder' = package_folder ]_vars

\* C7 witness: package_info() has just run, after package(), and changed
\* all three directory lists.
C7_Witness ==
    /\ lastCall = "package_info"
    /\ packaged
    /\ DOMAIN package_folder # {}
    /\ includedirs # initial.includedirs
    /\ bindirs # initial.bindirs
    /\ libdirs # initial.libdirs

\* C8: when the source folder holds only files exported by "include/*" and
\* the package folder started empty, every file package() has packaged lies
\* under the package folder's "include" directory, which is the one
\* directory package_info() reports.
C8_HeadersUnderInclude ==
    (packaged /\ StartedEmpty /\ OnlyExportedSources) =>
        \A f \in DOMAIN package_folder :
            /\ IsUnder(f, include)
            /\ lastCall = "package_info" =>
                  (Len(includedirs) = 1 /\ IsUnder(f, includedirs[1]))

\* C8 witness: both callbacks have run, from an empty package folder, on
\* exported sources with a top-level and a nested header.
C8_Witness ==
    /\ packaged
    /\ StartedEmpty
    /\ OnlyExportedSources
    /\ lastCall = "package_info"
    /\ DOMAIN package_folder = {P_a_h, P_sub_b_h}

====
